---- MODULE Spec2Model ----
(***************************************************************************)
(* A model of the Postgres MCP server (src/main.py): the read-only guard   *)
(* of query_database, the connect / cursor / execute / fetchall / close    *)
(* skeleton every tool shares, the except clauses and the finally block,   *)
(* simplify_json and json.dumps, and the column and index folds of the     *)
(* schema tools.                                                           *)
(*                                                                         *)
(* One invocation of one tool runs at a time: the tools share no state,    *)
(* every invocation opens its own connection.  The backend (psycopg2) is   *)
(* the environment: each of its calls answers "ok" or raises one of the    *)
(* DB-API exception classes, and fetchall answers with rows.               *)
(***************************************************************************)
EXTENDS Integers, Sequences, FiniteSets, TLC

(***************************************************************************)
(* Bounds of the model.                                                    *)
(***************************************************************************)
MaxQueryRows == 1
MaxQueryCols == 1
MaxColumnRows == 2
MaxIndexRows == 2
MaxFoldRows == 3

(***************************************************************************)
(* Text.  A Python str is a sequence of one-character strings.             *)
(***************************************************************************)
LowerChars == <<"a","b","c","d","e","f","g","h","i","j","k","l","m",
                "n","o","p","q","r","s","t","u","v","w","x","y","z">>
UpperChars == <<"A","B","C","D","E","F","G","H","I","J","K","L","M",
                "N","O","P","Q","R","S","T","U","V","W","X","Y","Z">>

\* str.upper() on one character: a lower-case letter becomes its capital,
\* every other character is left as it is.
UpperChar(c) ==
    IF \E i \in 1..Len(LowerChars) : LowerChars[i] = c
    THEN UpperChars[CHOOSE i \in 1..Len(LowerChars) : LowerChars[i] = c]
    ELSE c

\* sql_query.upper()
Upper(s) == [i \in 1..Len(s) |-> UpperChar(s[i])]

\* keyword in upper_query: Python's substring test.
Contains(s, k) ==
    \E i \in 0..(Len(s) - Len(k)) : \A j \in 1..Len(k) : s[i + j] = k[j]

\* BLOCKED_KEYWORDS, each token with its trailing space.
BLOCKED_KEYWORDS ==
    { <<"I","N","S","E","R","T"," ">>,
      <<"U","P","D","A","T","E"," ">>,
      <<"D","E","L","E","T","E"," ">>,
      <<"C","R","E","A","T","E"," ">>,
      <<"D","R","O","P"," ">>,
      <<"A","L","T","E","R"," ">>,
      <<"T","R","U","N","C","A","T","E"," ">>,
      <<"G","R","A","N","T"," ">>,
      <<"R","E","V","O","K","E"," ">>,
      <<"C","O","P","Y"," ">>,
      <<"M","E","R","G","E"," ">> }

\* A guard that forgets to upper-case the query before the scan.
is_blocked_case_sensitive(sql) ==
    \E keyword \in BLOCKED_KEYWORDS : Contains(sql, keyword)

\* upper_query = sql_query.upper();
\* any(keyword in upper_query for keyword in BLOCKED_KEYWORDS)
is_blocked(sql) ==
    LET upper_query == Upper(sql)
    IN  \E keyword \in BLOCKED_KEYWORDS : Contains(upper_query, keyword)

(***************************************************************************)
(* Python values.  A value is a record with a tag naming its type; a leaf  *)
(* carries its text in v, a list or a tuple its elements in items, a dict  *)
(* its keys and values in keys and vals.                                   *)
(***************************************************************************)
PyLeaf(tag, v) == [tag |-> tag, v |-> v]
PyList(items) == [tag |-> "list", items |-> items]
PyTuple(items) == [tag |-> "tuple", items |-> items]
PyDict(keys, vals) == [tag |-> "dict", keys |-> keys, vals |-> vals]

\* The backend-native values a fetched row is made of.
SampleDatetime == PyLeaf("datetime", "2024-05-01 10:00:00")
SampleDecimal == PyLeaf("Decimal", "12.50")
SampleUUID == PyLeaf("UUID", "6f1c2a")
SampleInt == PyLeaf("int", "7")
Leaves == {SampleDatetime, SampleDecimal, SampleUUID, SampleInt}

\* o.isoformat(): date and time are joined by "T".
isoformat(v) ==
    CASE v = "2024-05-01 10:00:00" -> "2024-05-01T10:00:00"
      [] OTHER -> v

\* float(o) of a Decimal, as json.dumps writes it: 12.50 is 12.5.
float_of(v) ==
    CASE v = "12.50" -> "12.5"
      [] OTHER -> v

RECURSIVE convert_to_basic(_)
\* simplify_json's inner convert_to_basic: only dict and list are walked, a
\* tuple falls to the last branch and is returned as it is.
convert_to_basic(o) ==
    IF o.tag = "dict"
    THEN PyDict(o.keys, [i \in 1..Len(o.vals) |-> convert_to_basic(o.vals[i])])
    ELSE IF o.tag = "list"
    THEN PyList([i \in 1..Len(o.items) |-> convert_to_basic(o.items[i])])
    ELSE IF o.tag \in {"datetime", "date", "time"}
    THEN PyLeaf("str", isoformat(o.v))
    ELSE IF o.tag \in {"UUID", "bytes"}
    THEN PyLeaf("str", o.v)
    ELSE IF o.tag = "Decimal"
    THEN PyLeaf("float", float_of(o.v))
    ELSE o

simplify_json(obj) == convert_to_basic(obj)

(***************************************************************************)
(* json.dumps.  The encoder writes str, int, float, bool and None, lists   *)
(* and tuples (both as arrays) and dicts; any other type raises TypeError. *)
(***************************************************************************)
RECURSIVE Serializable(_)
Serializable(o) ==
    IF o.tag \in {"list", "tuple"}
    THEN \A i \in 1..Len(o.items) : Serializable(o.items[i])
    ELSE IF o.tag = "dict"
    THEN \A i \in 1..Len(o.vals) : Serializable(o.vals[i])
    ELSE o.tag \in {"str", "int", "float", "bool", "NoneType"}

JsonArray(items) == [type |-> "array", items |-> items]
JsonObject(keys, vals) == [type |-> "object", keys |-> keys, vals |-> vals]
JsonScalar(type, v) == [type |-> type, v |-> v]

RECURSIVE ToJson(_)
ToJson(o) ==
    IF o.tag \in {"list", "tuple"}
    THEN JsonArray([i \in 1..Len(o.items) |-> ToJson(o.items[i])])
    ELSE IF o.tag = "dict"
    THEN JsonObject(o.keys, [i \in 1..Len(o.vals) |-> ToJson(o.vals[i])])
    ELSE IF o.tag = "str" THEN JsonScalar("string", o.v)
    ELSE IF o.tag \in {"int", "float"} THEN JsonScalar("number", o.v)
    ELSE IF o.tag = "bool" THEN JsonScalar("boolean", o.v)
    ELSE JsonScalar("null", "null")

\* What a tool hands back: nothing yet, a JSON text, or an exception that
\* left the function.
NoOutcome == [kind |-> "none", json |-> JsonScalar("null", "null"), exc |-> ""]
Text(json) == [kind |-> "text", json |-> json, exc |-> ""]
Raised(e) == [kind |-> "raised", json |-> JsonScalar("null", "null"), exc |-> e]

\* json.dumps(obj): the text, or TypeError.
json_dumps(o) == IF Serializable(o) THEN Text(ToJson(o)) ELSE Raised("TypeError")

\* cursor.fetchall() of query_database: a list of tuples.
PyRows(rows) == PyList([i \in 1..Len(rows) |-> PyTuple(rows[i])])

(***************************************************************************)
(* The tools and their inputs.                                             *)
(***************************************************************************)
TableTools == {"get_table_schema", "get_table_schema_with_indexes",
               "get_table_indexes"}
CursorTools == {"query_database", "get_database_schema",
                "get_database_schema_with_indexes", "list_tables",
                "list_database_schemas"} \cup TableTools
Tools == CursorTools \cup {"ping_database"}

LowerChar(c) ==
    IF \E i \in 1..Len(UpperChars) : UpperChars[i] = c
    THEN LowerChars[CHOOSE i \in 1..Len(UpperChars) : UpperChars[i] = c]
    ELSE c
Lower(s) == [i \in 1..Len(s) |-> LowerChar(s[i])]
Capitalize(s) == [i \in 1..Len(s) |-> IF i = 1 THEN s[i] ELSE LowerChar(s[i])]

\* The words the SQL inputs are built from: the eleven write and DDL words
\* and SELECT.
WriteWords ==
    { <<"I","N","S","E","R","T">>, <<"U","P","D","A","T","E">>,
      <<"D","E","L","E","T","E">>, <<"C","R","E","A","T","E">>,
      <<"D","R","O","P">>, <<"A","L","T","E","R">>,
      <<"T","R","U","N","C","A","T","E">>, <<"G","R","A","N","T">>,
      <<"R","E","V","O","K","E">>, <<"C","O","P","Y">>,
      <<"M","E","R","G","E">> }
SqlWords == WriteWords \cup { <<"S","E","L","E","C","T">> }

\* sql_query: a word in upper case, lower case or capitalized, at the start
\* of the text or glued to a preceding character, followed by a space or
\* directly by the next character.
SqlInputs ==
    { pre \o w \o sep \o <<"t">> :
        pre \in { <<>>, <<"x">> },
        w \in UNION { {u, Lower(u), Capitalize(u)} : u \in SqlWords },
        sep \in { <<" ">>, <<>> } }

TableNames == {"t1", "t2"}
ColumnNames == {"c1", "c2"}
IndexNames == {"idx_a", "idx_b"}

SeqsUpTo(S, n) == UNION { [1..k -> S] : k \in 0..n }

\* Rows of information_schema.columns:
\* (table_name, column_name, data_type, is_nullable, column_default).
ColumnRows == { <<t, c, "text", "YES", "null">> : t \in TableNames, c \in ColumnNames }

\* Rows of the pg_attribute query of one table, ordered by attnum:
\* (column_order, column_name, data_type, is_nullable, default, comment).
TableColumnRowSeqs ==
    { [i \in 1..Len(cs) |-> <<i, cs[i], "text", TRUE, "null", "null">>] :
        cs \in SeqsUpTo(ColumnNames, MaxColumnRows) }

\* Rows of the pg_index query of a schema:
\* (table_name, index_name, column_name, is_unique, is_primary).  An index is
\* unique and primary, or neither, in all of its rows.
IndexRows ==
    { <<t, i, c, i = "idx_b", i = "idx_b">> :
        t \in TableNames, i \in IndexNames, c \in ColumnNames }

\* Rows of the pg_index query of one table:
\* (index_name, column_name, is_unique, is_primary).
TableIndexRows ==
    { <<i, c, i = "idx_b", i = "idx_b">> : i \in IndexNames, c \in ColumnNames }

\* Rows of one name: information_schema.tables, information_schema.schemata.
NameRows == { <<n>> : n \in TableNames }

\* Rows of an ad-hoc query: tuples of backend-native values.
QueryRows == UNION { [1..k -> Leaves] : k \in 1..MaxQueryCols }

\* What fetchall can answer for statement n of tool o.
FetchAnswers(o, n) ==
    CASE o = "query_database" -> SeqsUpTo(QueryRows, MaxQueryRows)
      [] o \in {"get_database_schema", "get_database_schema_with_indexes"} /\ n = 1
           -> SeqsUpTo(ColumnRows, MaxColumnRows)
      [] o = "get_database_schema_with_indexes" /\ n = 2
           -> SeqsUpTo(IndexRows, MaxIndexRows)
      [] o \in {"get_table_schema", "get_table_schema_with_indexes"} /\ n = 1
           -> TableColumnRowSeqs
      [] o = "get_table_schema_with_indexes" /\ n = 2
           -> SeqsUpTo(TableIndexRows, MaxIndexRows)
      [] o = "get_table_indexes" -> SeqsUpTo(TableIndexRows, MaxIndexRows)
      [] OTHER -> SeqsUpTo(NameRows, MaxColumnRows)

\* The exception classes of psycopg2 a backend call can raise.  DatabaseError
\* stands for DatabaseError itself and its subclasses other than
\* OperationalError and ProgrammingError; InterfaceError is not a
\* DatabaseError.
BackendErrors == {"OperationalError", "ProgrammingError", "DatabaseError",
                  "InterfaceError"}
CloseErrors == {"InterfaceError"}

(***************************************************************************)
(* The schema folds.  A Python dict keeps its keys in insertion order: the *)
(* schema is the sequence of its entries, one per table name.              *)
(***************************************************************************)
HasTable(schema, t) == \E i \in 1..Len(schema) : schema[i].table_name = t
TableAt(schema, t) == CHOOSE i \in 1..Len(schema) : schema[i].table_name = t

ColumnOf(row) ==
    [column_name |-> row[2], data_type |-> row[3],
     is_nullable |-> row[4], column_default |-> row[5]]

\* A fold step that creates the table entry anew for every row.
add_column_row_reset(schema, row) ==
    LET t == row[1]
        fresh == [table_name |-> t, columns |-> <<ColumnOf(row)>>, indexes |-> <<>>]
    IN  IF HasTable(schema, t)
        THEN [schema EXCEPT ![TableAt(schema, t)] = fresh]
        ELSE Append(schema, fresh)

\* One pass of the loop over column_rows.
add_column_row(schema, row) ==
    LET t == row[1]
        s1 == IF ~HasTable(schema, t)
              THEN Append(schema, [table_name |-> t, columns |-> <<>>, indexes |-> <<>>])
              ELSE schema
    IN  [s1 EXCEPT ![TableAt(s1, t)].columns = Append(@, ColumnOf(row))]

RECURSIVE fold_columns(_, _)
\* for row in column_rows: ...
fold_columns(schema, rows) ==
    IF rows = <<>> THEN schema
    ELSE fold_columns(add_column_row(schema, Head(rows)), Tail(rows))

IndexOf(index_name, column_name, is_unique, is_primary) ==
    [index_name |-> index_name, columns |-> <<column_name>>,
     is_unique |-> is_unique, is_primary |-> is_primary]

\* A step that never looks for an existing index of the name.
add_index_no_merge(indexes, index_name, column_name, is_unique, is_primary) ==
    Append(indexes, IndexOf(index_name, column_name, is_unique, is_primary))

\* existing_index = next((idx for idx in indexes if idx["index_name"] ==
\* index_name), None); append the column to it, or append a new index.
add_index(indexes, index_name, column_name, is_unique, is_primary) ==
    LET found == { k \in 1..Len(indexes) : indexes[k].index_name = index_name }
    IN  IF found # {}
        THEN LET k == CHOOSE x \in found : \A y \in found : x <= y
             IN  [indexes EXCEPT ![k].columns = Append(@, column_name)]
        ELSE Append(indexes, IndexOf(index_name, column_name, is_unique, is_primary))

\* One pass of the loop over index_rows of a schema: a row of a table that is
\* not in the schema is skipped.
add_schema_index_row(schema, row) ==
    IF ~HasTable(schema, row[1]) THEN schema
    ELSE [schema EXCEPT ![TableAt(schema, row[1])].indexes =
              add_index(@, row[2], row[3], row[4], row[5])]

RECURSIVE fold_schema_indexes(_, _)
fold_schema_indexes(schema, rows) ==
    IF rows = <<>> THEN schema
    ELSE fold_schema_indexes(add_schema_index_row(schema, Head(rows)), Tail(rows))

RECURSIVE fold_table_indexes(_, _)
\* The loop over index_rows of one table.
fold_table_indexes(indexes, rows) ==
    IF rows = <<>> THEN indexes
    ELSE fold_table_indexes(
             add_index(indexes, Head(rows)[1], Head(rows)[2], Head(rows)[3], Head(rows)[4]),
             Tail(rows))

\* json.dumps of the schema dict and of one table's dict.
TableJson(columns, indexes) ==
    JsonObject(<<"columns", "indexes">>, <<JsonArray(columns), JsonArray(indexes)>>)
SchemaJson(schema) ==
    JsonObject([i \in 1..Len(schema) |-> schema[i].table_name],
               [i \in 1..Len(schema) |-> TableJson(schema[i].columns, schema[i].indexes)])

(***************************************************************************)
(* The envelopes.  An f-string is the sequence of its parts.               *)
(***************************************************************************)
ErrorEnvelope(message) == JsonObject(<<"error">>, <<JsonScalar("string", message)>>)
MessageEnvelope(message) == JsonObject(<<"message">>, <<JsonScalar("string", message)>>)
StatusEnvelope(status, message) ==
    JsonObject(<<"status", "message">>,
               <<JsonScalar("string", <<status>>), JsonScalar("string", message)>>)

Rejection ==
    ErrorEnvelope(<<"Write and DDL queries are not allowed. Only read queries are permitted.">>)
TableNotFound(t) == ErrorEnvelope(<<"Table ", t, " does not exist.">>)
NoIndexesFound(t) == MessageEnvelope(<<"No indexes found for table ", t, ".">>)

\* The text of the except ProgrammingError clause of each tool.
SqlErrorText(o, t) ==
    CASE o = "query_database" -> <<"SQL query error: ">>
      [] o \in {"get_database_schema", "get_database_schema_with_indexes"}
           -> <<"SQL error fetching schema: ">>
      [] o \in {"get_table_schema", "get_table_schema_with_indexes"}
           -> <<"SQL error fetching schema for table ", t, ": ">>
      [] o = "get_table_indexes" -> <<"SQL error fetching indexes for table ", t, ": ">>
      [] o = "list_tables" -> <<"SQL error listing tables: ">>
      [] OTHER -> <<"SQL error listing schemas: ">>

\* The text of the except DatabaseError clause of each tool.
DatabaseErrorText(o, t) ==
    CASE o = "query_database" -> <<"Database error: ">>
      [] o \in {"get_database_schema", "get_database_schema_with_indexes"}
           -> <<"Database error fetching schema: ">>
      [] o \in {"get_table_schema", "get_table_schema_with_indexes"}
           -> <<"Database error fetching schema for table ", t, ": ">>
      [] o = "get_table_indexes" -> <<"Database error fetching indexes for table ", t, ": ">>
      [] o = "list_tables" -> <<"Database error listing tables: ">>
      [] OTHER -> <<"Database error listing schemas: ">>

\* The except clauses of a tool with a cursor, tried in order: the envelope
\* the matching clause returns, or the exception itself when none matches.
except_clauses(o, e, t) ==
    IF e = "OperationalError"
    THEN Text(ErrorEnvelope(<<"Database connection error: ", e>>))
    ELSE IF e = "ProgrammingError"
    THEN Text(ErrorEnvelope(SqlErrorText(o, t) \o <<e>>))
    ELSE IF e = "DatabaseError"
    THEN Text(ErrorEnvelope(DatabaseErrorText(o, t) \o <<e>>))
    ELSE Raised(e)

\* A ping_database whose only except clause is the one for InterfaceError.
ping_except_interface_only(e) ==
    IF e = "InterfaceError"
    THEN Text(StatusEnvelope("error", <<"Database interface error: ", e>>))
    ELSE Raised(e)

\* The except clauses of ping_database.
ping_except_clauses(e) ==
    IF e = "OperationalError"
    THEN Text(StatusEnvelope("error", <<"Database connection failed: ", e>>))
    ELSE IF e = "InterfaceError"
    THEN Text(StatusEnvelope("error", <<"Database interface error: ", e>>))
    ELSE Raised(e)

(***************************************************************************)
(* What each tool returns from its rows.                                   *)
(***************************************************************************)
\* A get_database_schema that groups the rows by table before returning.
get_database_schema_grouped(column_rows) ==
    Text(SchemaJson(fold_columns(<<>>, column_rows)))

\* return json.dumps(column_rows, indent=2)
get_database_schema_result(column_rows) == Text(JsonArray(column_rows))

\* A test that lets every result through, the empty one too.
table_exists_unchecked(column_rows) == TRUE

\* if not column_rows: ... (the negation: the table exists)
table_exists(column_rows) == Len(column_rows) # 0

\* get_table_schema: the "does not exist" envelope, or the rows.
get_table_schema_result(t, column_rows) ==
    IF ~table_exists(column_rows) THEN Text(TableNotFound(t))
    ELSE Text(JsonArray(column_rows))

\* A get_table_indexes that reports an empty result as an error.
get_table_indexes_as_error(t, index_rows) ==
    IF Len(index_rows) = 0
    THEN Text(ErrorEnvelope(<<"No indexes found for table ", t, ".">>))
    ELSE Text(JsonArray(index_rows))

\* if not index_rows: return the "No indexes found" message
get_table_indexes_result(t, index_rows) ==
    IF Len(index_rows) = 0 THEN Text(NoIndexesFound(t))
    ELSE Text(JsonArray(index_rows))

\* table_names = [row[0] for row in table_rows]; json.dumps(table_names)
list_names_result(name_rows) ==
    Text(JsonArray([i \in 1..Len(name_rows) |-> JsonScalar("string", name_rows[i][1])]))

(***************************************************************************)
(* The state of one invocation.                                            *)
(***************************************************************************)
VARIABLES
    op,            \* the tool invoked
    pc,            \* the statement the invocation is at
    sql_query,     \* query_database's argument
    table_name,    \* the table tools' argument
    conn,          \* "None", "open" or "closed"
    cursor,        \* "None", "open" or "closed"
    rows,          \* what the first fetchall returned
    index_rows,    \* what the second fetchall returned
    schema,        \* get_database_schema_with_indexes' dict
    table_schema,  \* get_table_schema_with_indexes' dict
    exc,           \* the exception raised in the try block
    pending,       \* what the try statement leaves to do after finally
    result,        \* what the caller gets
    calls          \* the backend calls made, each with its answer

vars == <<op, pc, sql_query, table_name, conn, cursor, rows, index_rows,
          schema, table_schema, exc, pending, result, calls>>

EmptyTable == [columns |-> <<>>, indexes |-> <<>>]

Init ==
    /\ op = "" /\ pc = "idle"
    /\ sql_query = <<>> /\ table_name = ""
    /\ conn = "None" /\ cursor = "None"
    /\ rows = <<>> /\ index_rows = <<>>
    /\ schema = <<>> /\ table_schema = EmptyTable
    /\ exc = "" /\ pending = NoOutcome /\ result = NoOutcome
    /\ calls = <<>>

PcExecute(n) == IF n = 1 THEN "execute1" ELSE "execute2"
PcFetch(n) == IF n = 1 THEN "fetch1" ELSE "fetch2"
PcFetched(n) == IF n = 1 THEN "fetched1" ELSE "fetched2"

\* query_database up to its try statement: the guard.
query_database_guard ==
    /\ pc = "idle"
    /\ \E sql \in SqlInputs :
        /\ op' = "query_database"
        /\ sql_query' = sql
        /\ IF is_blocked(sql)
           THEN result' = Text(Rejection) /\ pc' = "done"
           ELSE result' = result /\ pc' = "connect"
    /\ UNCHANGED <<table_name, conn, cursor, rows, index_rows, schema,
                   table_schema, exc, pending, calls>>

\* Every other tool up to its try statement.
invoke_tool ==
    /\ pc = "idle"
    /\ \E o \in Tools \ {"query_database"} :
       \E t \in (IF o \in TableTools THEN TableNames ELSE {""}) :
        /\ op' = o
        /\ table_name' = t
    /\ pc' = "connect"
    /\ UNCHANGED <<sql_query, conn, cursor, rows, index_rows, schema,
                   table_schema, exc, pending, result, calls>>

\* conn = get_db_connection()
get_db_connection ==
    /\ pc = "connect"
    /\ \E r \in {"ok"} \cup BackendErrors :
        /\ calls' = Append(calls, <<"connect", r>>)
        /\ IF r = "ok"
           THEN /\ conn' = "open" /\ exc' = exc
                /\ pc' = IF op = "ping_database" THEN "ping_close" ELSE "cursor"
           ELSE conn' = conn /\ exc' = r /\ pc' = "except"
    /\ UNCHANGED <<op, sql_query, table_name, cursor, rows, index_rows, schema,
                   table_schema, pending, result>>

\* cursor = conn.cursor()
conn_cursor ==
    /\ pc = "cursor"
    /\ \E r \in {"ok"} \cup BackendErrors :
        /\ calls' = Append(calls, <<"cursor", r>>)
        /\ IF r = "ok"
           THEN cursor' = "open" /\ exc' = exc /\ pc' = PcExecute(1)
           ELSE cursor' = cursor /\ exc' = r /\ pc' = "except"
    /\ UNCHANGED <<op, sql_query, table_name, conn, rows, index_rows, schema,
                   table_schema, pending, result>>

\* cursor.execute(...): the first statement, or the index statement.
cursor_execute ==
    \E n \in {1, 2} :
        /\ pc = PcExecute(n)
        /\ \E r \in {"ok"} \cup BackendErrors :
            /\ calls' = Append(calls, <<"execute", r>>)
            /\ IF r = "ok"
               THEN exc' = exc /\ pc' = PcFetch(n)
               ELSE exc' = r /\ pc' = "except"
        /\ UNCHANGED <<op, sql_query, table_name, conn, cursor, rows, index_rows,
                       schema, table_schema, pending, result>>

\* cursor.fetchall()
cursor_fetchall ==
    \E n \in {1, 2} :
        /\ pc = PcFetch(n)
        /\ \/ \E r \in BackendErrors :
                /\ calls' = Append(calls, <<"fetchall", r>>)
                /\ exc' = r /\ pc' = "except"
                /\ UNCHANGED <<rows, index_rows>>
           \/ \E fetched \in FetchAnswers(op, n) :
                /\ calls' = Append(calls, <<"fetchall", "ok">>)
                /\ exc' = exc /\ pc' = PcFetched(n)
                /\ IF n = 1
                   THEN rows' = fetched /\ index_rows' = index_rows
                   ELSE rows' = rows /\ index_rows' = fetched
        /\ UNCHANGED <<op, sql_query, table_name, conn, cursor, schema,
                       table_schema, pending, result>>

\* query_database: rows is set and the try block ends; the return statement
\* follows the finally block.
query_database_fetched ==
    /\ pc = "fetched1" /\ op = "query_database"
    /\ pending' = NoOutcome
    /\ pc' = "finally"
    /\ UNCHANGED <<op, sql_query, table_name, conn, cursor, rows, index_rows,
                   schema, table_schema, exc, result, calls>>

\* The return statements inside the try block of the tools with one statement.
return_rows ==
    /\ pc = "fetched1"
    /\ op \in {"get_database_schema", "get_table_schema", "get_table_indexes",
               "list_tables", "list_database_schemas"}
    /\ pending' =
        CASE op = "get_database_schema" -> get_database_schema_result(rows)
          [] op = "get_table_schema" -> get_table_schema_result(table_name, rows)
          [] op = "get_table_indexes" -> get_table_indexes_result(table_name, rows)
          [] OTHER -> list_names_result(rows)
    /\ pc' = "finally"
    /\ UNCHANGED <<op, sql_query, table_name, conn, cursor, rows, index_rows,
                   schema, table_schema, exc, result, calls>>

\* get_database_schema_with_indexes: schema = {} and the loop over column_rows.
build_schema_columns ==
    /\ pc = "fetched1" /\ op = "get_database_schema_with_indexes"
    /\ schema' = fold_columns(<<>>, rows)
    /\ pc' = PcExecute(2)
    /\ UNCHANGED <<op, sql_query, table_name, conn, cursor, rows, index_rows,
                   table_schema, exc, pending, result, calls>>

\* get_database_schema_with_indexes: the loop over index_rows and the return.
build_schema_indexes ==
    /\ pc = "fetched2" /\ op = "get_database_schema_with_indexes"
    /\ schema' = fold_schema_indexes(schema, index_rows)
    /\ pending' = Text(SchemaJson(schema'))
    /\ pc' = "finally"
    /\ UNCHANGED <<op, sql_query, table_name, conn, cursor, rows, index_rows,
                   table_schema, exc, result, calls>>

\* get_table_schema_with_indexes: the test for an empty result, and
\* table_schema["columns"] = column_rows.
build_table_columns ==
    /\ pc = "fetched1" /\ op = "get_table_schema_with_indexes"
    /\ IF table_exists(rows)
       THEN /\ table_schema' = [EmptyTable EXCEPT !.columns = rows]
            /\ pending' = pending
            /\ pc' = PcExecute(2)
       ELSE /\ table_schema' = EmptyTable
            /\ pending' = Text(TableNotFound(table_name))
            /\ pc' = "finally"
    /\ UNCHANGED <<op, sql_query, table_name, conn, cursor, rows, index_rows,
                   schema, exc, result, calls>>

\* get_table_schema_with_indexes: the loop over index_rows and the return.
build_table_indexes ==
    /\ pc = "fetched2" /\ op = "get_table_schema_with_indexes"
    /\ table_schema' = [table_schema EXCEPT
                           !.indexes = fold_table_indexes(@, index_rows)]
    /\ pending' = Text(TableJson(table_schema'.columns, table_schema'.indexes))
    /\ pc' = "finally"
    /\ UNCHANGED <<op, sql_query, table_name, conn, cursor, rows, index_rows,
                   schema, exc, result, calls>>

\* The except clauses of the tools with a cursor.
\* An except clause that returns what was gathered so far next to the error.
except_handler_with_partial ==
    /\ pc = "except" /\ op # "ping_database"
    /\ pending' =
          LET caught == except_clauses(op, exc, table_name)
          IN  IF caught.kind # "text" THEN caught
              ELSE Text(JsonObject(<<"error", "partial">>,
                                   <<caught.json.vals[1], JsonArray(rows)>>))
    /\ pc' = "finally"
    /\ UNCHANGED <<op, sql_query, table_name, conn, cursor, rows, index_rows,
                   schema, table_schema, exc, result, calls>>

except_handler ==
    /\ pc = "except" /\ op # "ping_database"
    /\ pending' = except_clauses(op, exc, table_name)
    /\ pc' = "finally"
    /\ UNCHANGED <<op, sql_query, table_name, conn, cursor, rows, index_rows,
                   schema, table_schema, exc, result, calls>>

\* A test that is the wrong way round: close what was never opened.
handle_is_none(h) == h = "None"

\* if cursor is not None / if conn is not None
handle_is_not_none(h) == h # "None"

\* finally: if cursor is not None: cursor.close().  An exception raised here
\* leaves the function at once, in place of what the try statement left.
finally_cursor ==
    /\ pc = "finally"
    /\ IF ~handle_is_not_none(cursor)
       THEN pc' = "finally_conn" /\ UNCHANGED <<cursor, result, calls>>
       ELSE \E r \in {"ok"} \cup CloseErrors :
            /\ calls' = Append(calls, <<"cursor.close", r>>)
            /\ IF r = "ok"
               THEN cursor' = "closed" /\ result' = result /\ pc' = "finally_conn"
               ELSE cursor' = cursor /\ result' = Raised(r) /\ pc' = "done"
    /\ UNCHANGED <<op, sql_query, table_name, conn, rows, index_rows, schema,
                   table_schema, exc, pending>>

\* finally: if conn is not None: conn.close(); then the return or the
\* exception the try statement left, or the statement after it.
finally_conn ==
    /\ pc = "finally_conn"
    /\ IF ~handle_is_not_none(conn)
       THEN UNCHANGED <<conn, calls>>
       ELSE conn' = "closed" /\ calls' = Append(calls, <<"conn.close", "ok">>)
    /\ IF pending.kind = "none"
       THEN result' = result /\ pc' = "return"
       ELSE result' = pending /\ pc' = "done"
    /\ UNCHANGED <<op, sql_query, table_name, cursor, rows, index_rows, schema,
                   table_schema, exc, pending>>

\* query_database: return json.dumps(simplify_json(rows), indent=2)
query_database_return ==
    /\ pc = "return"
    /\ result' = json_dumps(simplify_json(PyRows(rows)))
    /\ pc' = "done"
    /\ UNCHANGED <<op, sql_query, table_name, conn, cursor, rows, index_rows,
                   schema, table_schema, exc, pending, calls>>

\* ping_database: conn.close() and the success envelope.
ping_close ==
    /\ pc = "ping_close"
    /\ conn' = "closed"
    /\ calls' = Append(calls, <<"conn.close", "ok">>)
    /\ result' = Text(StatusEnvelope("success", <<"Database connection successful.">>))
    /\ pc' = "done"
    /\ UNCHANGED <<op, sql_query, table_name, cursor, rows, index_rows, schema,
                   table_schema, exc, pending>>

\* ping_database: its except clauses; there is no finally block.
ping_except ==
    /\ pc = "except" /\ op = "ping_database"
    /\ result' = ping_except_clauses(exc)
    /\ pc' = "done"
    /\ UNCHANGED <<op, sql_query, table_name, conn, cursor, rows, index_rows,
                   schema, table_schema, exc, pending, calls>>

Next ==
    \/ query_database_guard
    \/ invoke_tool
    \/ get_db_connection
    \/ conn_cursor
    \/ cursor_execute
    \/ cursor_fetchall
    \/ query_database_fetched
    \/ return_rows
    \/ build_schema_columns
    \/ build_schema_indexes
    \/ build_table_columns
    \/ build_table_indexes
    \/ except_handler
    \/ finally_cursor
    \/ finally_conn
    \/ query_database_return
    \/ ping_close
    \/ ping_except

Spec == Init /\ [][Next]_vars

(***************************************************************************)
(* The folds on their own: the rows are drawn from every sequence of rows  *)
(* up to MaxFoldRows, with any flags in any row, and the fold is applied.  *)
(***************************************************************************)
AnyIndexRows ==
    { <<t, i, c, f, f>> :
        t \in TableNames, i \in IndexNames, c \in ColumnNames, f \in BOOLEAN }
AnyTableIndexRows ==
    { <<i, c, f, f>> : i \in IndexNames, c \in ColumnNames, f \in BOOLEAN }

\* The column rows the index fold starts from: one table, or two.
FoldSchemaColumnRows ==
    { << <<"t1", "c1", "text", "YES", "null">> >>,
      << <<"t2", "c1", "text", "YES", "null">>,
         <<"t1", "c1", "text", "YES", "null">> >> }

InitFold ==
    /\ sql_query = <<>> /\ table_name = ""
    /\ conn = "open" /\ cursor = "open"
    /\ exc = "" /\ pending = NoOutcome /\ result = NoOutcome
    /\ calls = <<>>
    /\ \/ /\ op = "get_database_schema_with_indexes" /\ pc = "fetched1"
          /\ rows \in SeqsUpTo(ColumnRows, MaxFoldRows)
          /\ index_rows = <<>> /\ schema = <<>> /\ table_schema = EmptyTable
       \/ /\ op = "get_database_schema_with_indexes" /\ pc = "fetched2"
          /\ rows \in FoldSchemaColumnRows
          /\ schema = fold_columns(<<>>, rows)
          /\ index_rows \in SeqsUpTo(AnyIndexRows, MaxFoldRows)
          /\ table_schema = EmptyTable
       \/ /\ op = "get_table_schema_with_indexes" /\ pc = "fetched2"
          /\ rows = << <<1, "c1", "text", TRUE, "null", "null">> >>
          /\ table_schema = [EmptyTable EXCEPT !.columns = rows]
          /\ index_rows \in SeqsUpTo(AnyTableIndexRows, MaxFoldRows)
          /\ schema = <<>>

NextFold ==
    \/ build_schema_columns
    \/ build_schema_indexes
    \/ build_table_indexes

SpecFold == InitFold /\ [][NextFold]_vars

(***************************************************************************)
(* Reading the log of backend calls.                                       *)
(***************************************************************************)
CallCount(name) == Cardinality({ i \in 1..Len(calls) : calls[i][1] = name })
CallOk(name) == \E i \in 1..Len(calls) : calls[i] = <<name, "ok">>
CallFailed(name) ==
    \E i \in 1..Len(calls) : calls[i][1] = name /\ calls[i][2] # "ok"
AllCallsOk == \A i \in 1..Len(calls) : calls[i][2] = "ok"
BackendFailed == \E i \in 1..Len(calls) : calls[i][2] # "ok"

\* The place of a call in connect, cursor, execute, fetchall, close, close.
CallRank(name) ==
    CASE name = "connect" -> 1
      [] name = "cursor" -> 2
      [] name = "execute" -> 3
      [] name = "fetchall" -> 4
      [] name = "cursor.close" -> 5
      [] OTHER -> 6
CallsInOrder ==
    \A i, j \in 1..Len(calls) : i < j => CallRank(calls[i][1]) < CallRank(calls[j][1])

\* The eleven blocked tokens as the specification lists them: a write or DDL
\* word followed by a space.
BlockedTokens == { w \o <<" ">> : w \in WriteWords }
HasBlockedToken(sql) ==
    LET upper == Upper(sql)
    IN  \E tok \in BlockedTokens : Contains(upper, tok)

(***************************************************************************)
(* C1.  A query whose upper-cased text contains one of the eleven blocked  *)
(* tokens followed by a space is answered with the rejection envelope, and *)
(* no connection is opened, no statement executed and no fetch issued.     *)
(***************************************************************************)
C1_BlockedQueryRejected ==
    (op = "query_database" /\ HasBlockedToken(sql_query)) =>
        /\ pc = "done"
        /\ result.kind = "text"
        /\ result.json = Rejection
        /\ result.json.keys = <<"error">>
        /\ calls = <<>>
        /\ conn = "None" /\ cursor = "None"

\* "drop t" in lower case has been rejected.
C1_Witness ==
    /\ op = "query_database" /\ pc = "done"
    /\ sql_query = <<"d","r","o","p"," ","t">>
    /\ result = Text(Rejection)

(***************************************************************************)
(* C2 as stated.  A query without a blocked token makes query_database     *)
(* call execute once, then fetchall once, then close the cursor and the    *)
(* connection once each, whatever the backend answers.                     *)
(***************************************************************************)
C2_OneCycleWhateverTheBackendAnswers ==
    (op = "query_database" /\ pc = "done" /\ ~HasBlockedToken(sql_query)) =>
        /\ CallCount("execute") = 1
        /\ CallCount("fetchall") = 1
        /\ CallCount("cursor.close") = 1
        /\ CallCount("conn.close") = 1
        /\ CallsInOrder

(***************************************************************************)
(* C2, amended.  A query without a blocked token makes query_database call *)
(* connect once and then each further step at most once, in the order      *)
(* connect, cursor, execute, fetchall, cursor close, connection close, and *)
(* only when the step before it succeeded: the cursor is created iff       *)
(* connect succeeded, execute is called iff the cursor was created,        *)
(* fetchall iff execute succeeded, the cursor is closed iff it was         *)
(* created, and the connection is closed iff it was opened and closing the *)
(* cursor did not raise.                                                   *)
(***************************************************************************)
C2_AtMostOneCycle ==
    (op = "query_database" /\ pc = "done" /\ ~HasBlockedToken(sql_query)) =>
        /\ CallCount("connect") = 1
        /\ CallCount("cursor") = (IF CallOk("connect") THEN 1 ELSE 0)
        /\ CallCount("execute") = (IF CallOk("cursor") THEN 1 ELSE 0)
        /\ CallCount("fetchall") = (IF CallOk("execute") THEN 1 ELSE 0)
        /\ CallCount("cursor.close") = (IF CallOk("cursor") THEN 1 ELSE 0)
        /\ CallCount("conn.close") =
              (IF CallOk("connect") /\ ~CallFailed("cursor.close") THEN 1 ELSE 0)
        /\ CallsInOrder

\* The whole cycle has run: execute, fetchall and both closes, once each.
C2_Witness ==
    /\ op = "query_database" /\ pc = "done" /\ ~HasBlockedToken(sql_query)
    /\ calls = << <<"connect", "ok">>, <<"cursor", "ok">>, <<"execute", "ok">>,
                  <<"fetchall", "ok">>, <<"cursor.close", "ok">>,
                  <<"conn.close", "ok">> >>

(***************************************************************************)
(* C3.  Every tool returns a JSON text on every path: whatever the backend *)
(* or the serialization raises, no exception reaches the caller.           *)
(***************************************************************************)
C3_AlwaysReturnsJsonText ==
    pc = "done" => result.kind = "text"

(***************************************************************************)
(* C4.  On every exit path, every connection and every cursor opened       *)
(* during the invocation is closed before the tool returns.                *)
(***************************************************************************)
C4_EverythingClosedOnExit ==
    pc = "done" => (conn # "open" /\ cursor # "open")

\* A leaf as the normalized result shows it.
NormalizedLeaf(o) ==
    IF o.tag \in {"datetime", "date", "time"} THEN JsonScalar("string", isoformat(o.v))
    ELSE IF o.tag \in {"UUID", "bytes"} THEN JsonScalar("string", o.v)
    ELSE IF o.tag = "Decimal" THEN JsonScalar("number", float_of(o.v))
    ELSE ToJson(o)
NormalizedRows(rs) ==
    JsonArray([i \in 1..Len(rs) |->
        JsonArray([j \in 1..Len(rs[i]) |-> NormalizedLeaf(rs[i][j])])])

(***************************************************************************)
(* C5.  When the backend answers every call of a permitted query,          *)
(* query_database returns the fetched rows with every leaf normalized: a   *)
(* temporal value as its ISO-8601 text, a UUID or binary value as text, a  *)
(* decimal as a number, any other scalar unchanged.                        *)
(***************************************************************************)
C5_EveryLeafNormalized ==
    (op = "query_database" /\ pc = "done" /\ CallOk("fetchall") /\ AllCallsOk) =>
        /\ result.kind = "text"
        /\ result.json = NormalizedRows(rows)

\* Index rows of one table are (index_name, column_name, is_unique,
\* is_primary); the first row of a name, and the columns of a name in scan
\* order.
FirstRowOf(irows, name) ==
    CHOOSE k \in 1..Len(irows) :
        /\ irows[k][1] = name
        /\ \A j \in 1..(k - 1) : irows[j][1] # name

ColumnsOfIndex(irows, name) ==
    LET IsOfName(r) == r[1] = name
        sel == SelectSeq(irows, IsOfName)
    IN  [k \in 1..Len(sel) |-> sel[k][2]]

IndexesMatchRows(indexes, irows) ==
    LET names == { irows[k][1] : k \in 1..Len(irows) }
    IN  /\ Len(indexes) = Cardinality(names)
        /\ \A j \in 1..Len(indexes) : indexes[j].index_name \in names
        /\ \A i, j \in 1..Len(indexes) :
              i < j => /\ indexes[i].index_name # indexes[j].index_name
                       /\ FirstRowOf(irows, indexes[i].index_name)
                            < FirstRowOf(irows, indexes[j].index_name)
        /\ \A j \in 1..Len(indexes) :
              LET n == indexes[j].index_name
                  first == irows[FirstRowOf(irows, n)]
              IN  /\ indexes[j].columns = ColumnsOfIndex(irows, n)
                  /\ indexes[j].is_unique = first[3]
                  /\ indexes[j].is_primary = first[4]

\* The index rows of table t, without the table name.
IndexRowsOfTable(irows, t) ==
    LET IsOfTable(r) == r[1] = t
        sel == SelectSeq(irows, IsOfTable)
    IN  [k \in 1..Len(sel) |-> <<sel[k][2], sel[k][3], sel[k][4], sel[k][5]>>]

(***************************************************************************)
(* C6.  The index fold yields, per table, one index record per distinct    *)
(* index name, in order of first appearance; a record's columns are the    *)
(* column names of all rows of that name in scan order, and its flags are  *)
(* those of the first row of that name.                                    *)
(***************************************************************************)
C6_IndexFoldGroupsByName ==
    /\ (op = "get_database_schema_with_indexes" /\ pc = "finally") =>
          \A i \in 1..Len(schema) :
              IndexesMatchRows(schema[i].indexes,
                               IndexRowsOfTable(index_rows, schema[i].table_name))
    /\ (op = "get_table_schema_with_indexes" /\ pc = "finally") =>
          IndexesMatchRows(table_schema.indexes, index_rows)

\* The three rows of idx_a (two columns) and idx_b (one) have been folded
\* into two indexes of t1.
C6_Witness ==
    /\ op = "get_database_schema_with_indexes" /\ pc = "finally"
    /\ index_rows = << <<"t1", "idx_a", "c1", FALSE, FALSE>>,
                       <<"t1", "idx_a", "c2", FALSE, FALSE>>,
                       <<"t1", "idx_b", "c1", TRUE, TRUE>> >>
    /\ schema[TableAt(schema, "t1")].indexes =
          << [index_name |-> "idx_a", columns |-> <<"c1", "c2">>,
              is_unique |-> FALSE, is_primary |-> FALSE],
             [index_name |-> "idx_b", columns |-> <<"c1">>,
              is_unique |-> TRUE, is_primary |-> TRUE] >>

\* The first column row of a table, and the columns of a table in input order.
FirstRowOfTable(crows, t) ==
    CHOOSE k \in 1..Len(crows) :
        /\ crows[k][1] = t
        /\ \A j \in 1..(k - 1) : crows[j][1] # t

ColumnsOfTable(crows, t) ==
    LET IsOfTable(r) == r[1] = t
        sel == SelectSeq(crows, IsOfTable)
    IN  [k \in 1..Len(sel) |->
            [column_name |-> sel[k][2], data_type |-> sel[k][3],
             is_nullable |-> sel[k][4], column_default |-> sel[k][5]]]

(***************************************************************************)
(* C7.  The column fold keeps the order of its rows: the tables are in the *)
(* order of their first row, each table once, and a table's columns are    *)
(* its rows' columns in input order.                                       *)
(***************************************************************************)
C7_ColumnFoldKeepsOrder ==
    (op = "get_database_schema_with_indexes" /\ pc = "execute2") =>
        LET tables == { rows[k][1] : k \in 1..Len(rows) }
        IN  /\ Len(schema) = Cardinality(tables)
            /\ \A i \in 1..Len(schema) : schema[i].table_name \in tables
            /\ \A i, j \in 1..Len(schema) :
                  i < j => /\ schema[i].table_name # schema[j].table_name
                           /\ FirstRowOfTable(rows, schema[i].table_name)
                                < FirstRowOfTable(rows, schema[j].table_name)
            /\ \A i \in 1..Len(schema) :
                  schema[i].columns = ColumnsOfTable(rows, schema[i].table_name)

\* (t1,c1), (t1,c2), (t2,c1) have been folded: t1 with c1, c2 before t2.
C7_Witness ==
    /\ op = "get_database_schema_with_indexes" /\ pc = "execute2"
    /\ rows = << <<"t1", "c1", "text", "YES", "null">>,
                 <<"t1", "c2", "text", "YES", "null">>,
                 <<"t2", "c1", "text", "YES", "null">> >>
    /\ Len(schema) = 2
    /\ schema[1].table_name = "t1" /\ Len(schema[1].columns) = 2
    /\ schema[2].table_name = "t2" /\ Len(schema[2].columns) = 1

\* json is an object keyed by the table names of crows, each key once, each
\* value holding the columns of its table in order.
IsSchemaMapOf(json, crows) ==
    /\ json.type = "object"
    /\ \A i, j \in 1..Len(json.keys) : i # j => json.keys[i] # json.keys[j]
    /\ { json.keys[i] : i \in 1..Len(json.keys) }
          = { crows[k][1] : k \in 1..Len(crows) }
    /\ \A i \in 1..Len(json.keys) :
          /\ json.vals[i].type = "object"
          /\ json.vals[i].keys[1] = "columns"
          /\ json.vals[i].vals[1] = JsonArray(ColumnsOfTable(crows, json.keys[i]))

C9_NoColumnRowsIsNotFound ==
    (/\ op \in {"get_table_schema", "get_table_schema_with_indexes"}
     /\ Len(calls) >= 4 /\ calls[4] = <<"fetchall", "ok">>
     /\ Len(rows) = 0
     /\ pc # "fetched1") =>
        /\ pc \in {"finally", "finally_conn", "done"}
        /\ pending = Text(TableNotFound(table_name))
        /\ CallCount("execute") = 1
        /\ (pc = "done" /\ result.kind = "text") =>
              /\ result.json = TableNotFound(table_name)
              /\ result.json.keys = <<"error">>

\* get_table_schema_with_indexes has returned "does not exist" for t1.
C9_Witness ==
    /\ op = "get_table_schema_with_indexes" /\ pc = "done"
    /\ table_name = "t1"
    /\ Len(calls) >= 4 /\ calls[4] = <<"fetchall", "ok">> /\ Len(rows) = 0
    /\ CallCount("execute") = 1
    /\ result = Text(TableNotFound("t1"))

\* json is an object with a field of this name.
HasKey(json, key) ==
    /\ json.type = "object"
    /\ \E i \in 1..Len(json.keys) : json.keys[i] = key

(***************************************************************************)
(* C10.  When the index statement returns no row, get_table_indexes        *)
(* returns a message that carries no error field, and it returns an error  *)
(* envelope only when the backend reported a failure.                      *)
(***************************************************************************)
C10_NoIndexRowsIsAMessage ==
    (op = "get_table_indexes" /\ pc = "done" /\ result.kind = "text") =>
        /\ (CallOk("fetchall") /\ Len(rows) = 0) =>
              /\ result.json = NoIndexesFound(table_name)
              /\ result.json.keys = <<"message">>
              /\ ~HasKey(result.json, "error")
        /\ HasKey(result.json, "error") => BackendFailed

\* get_table_indexes has returned the message for a table without indexes.
C10_Witness ==
    /\ op = "get_table_indexes" /\ pc = "done"
    /\ CallOk("fetchall") /\ Len(rows) = 0
    /\ result = Text(NoIndexesFound(table_name))

\* The envelope ping_database returns when the connection was opened and closed.
PingSuccess == StatusEnvelope("success", <<"Database connection successful.">>)

\* json is an object of exactly the fields status and message, both strings,
\* whose status is "error".
IsPingFailure(json) ==
    /\ json.type = "object"
    /\ json.keys = <<"status", "message">>
    /\ Len(json.vals) = 2
    /\ json.vals[1] = JsonScalar("string", <<"error">>)
    /\ json.vals[2].type = "string"

\* psycopg2.connect raises OperationalError when the server cannot be reached.
BackendUnreachable == calls = << <<"connect", "OperationalError">> >>

(***************************************************************************)
(* C11.  ping_database returns the success envelope exactly when it opened *)
(* a connection and then closed it; when the backend is unreachable it     *)
(* returns the envelope of status "error" and a message and raises         *)
(* nothing; it never returns success while its connection is still open.   *)
(***************************************************************************)
C11_PingReportsTheConnection ==
    (op = "ping_database" /\ pc = "done") =>
        /\ (result = Text(PingSuccess)) <=>
              (calls = << <<"connect", "ok">>, <<"conn.close", "ok">> >>)
        /\ BackendUnreachable =>
              (result.kind = "text" /\ IsPingFailure(result.json))
        /\ (result = Text(PingSuccess)) => conn = "closed"

\* ping_database has answered an unreachable backend with the failure envelope.
C11_Witness ==
    /\ op = "ping_database" /\ pc = "done"
    /\ BackendUnreachable /\ conn = "None"
    /\ result.kind = "text" /\ IsPingFailure(result.json)

\* json is an object of the single field error, whose value is a string.
IsErrorOnly(json) ==
    /\ json.type = "object"
    /\ json.keys = <<"error">>
    /\ Len(json.vals) = 1
    /\ json.vals[1].type = "string"

\* The text of a failure envelope ends with the exception the backend raised.
NamesTheFailure(text) ==
    /\ Len(text) > 0
    /\ \E i \in 1..Len(calls) : calls[i][2] # "ok" /\ text[Len(text)] = calls[i][2]

\* A response after every backend call succeeded, to a permitted query and
\* about a table that has columns.
SuccessResponse ==
    /\ pc = "done" /\ result.kind = "text"
    /\ calls # <<>> /\ AllCallsOk
    /\ ~(op \in {"get_table_schema", "get_table_schema_with_indexes"} /\ Len(rows) = 0)

\* A response after a backend call failed.
FailureResponse == pc = "done" /\ result.kind = "text" /\ BackendFailed

\* json is the payload of the operation and nothing else: the array of rows
\* or names, the schema keyed by the tables of the rows, the table's columns
\* and indexes, the message of a table without indexes, the ping's success.
IsPayloadOnly(json) ==
    CASE op = "get_database_schema_with_indexes" ->
           /\ IsSchemaMapOf(json, rows)
           /\ \A i \in 1..Len(json.keys) : json.vals[i].keys = <<"columns", "indexes">>
      [] op = "get_table_schema_with_indexes" ->
           /\ json.type = "object"
           /\ json.keys = <<"columns", "indexes">>
           /\ json.vals[1] = JsonArray(rows)
      [] op = "get_table_indexes" /\ Len(rows) = 0 -> json = NoIndexesFound(table_name)
      [] op = "ping_database" -> json = PingSuccess
      [] OTHER -> json.type = "array" /\ Len(json.items) = Len(rows)

(***************************************************************************)
(* C12 as stated.  In every operation, a response after a backend step     *)
(* failed holds only the error field, and a response after every step      *)
(* succeeded holds only the result payload and no error field.             *)
(***************************************************************************)
C12_FailureHoldsOnlyTheErrorField ==
    /\ FailureResponse => IsErrorOnly(result.json)
    /\ SuccessResponse => (IsPayloadOnly(result.json) /\ ~HasKey(result.json, "error"))

(***************************************************************************)
(* C12.  A response after a backend step failed holds no partial result:   *)
(* it is the single field error, or for ping_database the two fields       *)
(* status and message, and its text ends with the exception raised, also   *)
(* when the index statement fails after the column rows were fetched and   *)
(* folded.  A response after every step succeeded is the result payload    *)
(* with no field added.                                                    *)
(***************************************************************************)
C12_FailureHoldsNoPartialResult ==
    /\ FailureResponse =>
          IF op = "ping_database"
          THEN /\ IsPingFailure(result.json)
               /\ NamesTheFailure(result.json.vals[2].v)
          ELSE /\ IsErrorOnly(result.json)
               /\ NamesTheFailure(result.json.vals[1].v)
    /\ SuccessResponse => IsPayloadOnly(result.json)

\* The index statement of get_database_schema_with_indexes failed after two
\* column rows were fetched and folded, and only the error field came back.
C12_Witness ==
    /\ op = "get_database_schema_with_indexes" /\ pc = "done"
    /\ Len(rows) = 2 /\ Len(schema) > 0
    /\ CallCount("execute") = 2 /\ CallFailed("execute")
    /\ result.kind = "text" /\ IsErrorOnly(result.json)

====
